---- MODULE Spec2Model ----
(***************************************************************************)
(* A model of the asset build orchestrator of build.js: the watch-mode     *)
(* debounce state machine (startWatchMode / debouncedBuild) and the build  *)
(* pipeline (build and its per-class steps); and of the audit harness of   *)
(* scripts/test-lighthouse.js (runLighthouseTests).                        *)
(*                                                                         *)
(* Time is counted in units of 100 ms, so the 600 ms debounce delay is 6   *)
(* and the 500 ms re-queue delay is 5.                                     *)
(***************************************************************************)
EXTENDS Integers, Sequences, FiniteSets, TLC

(***************************************************************************)
(* Bounds of the model.                                                    *)
(***************************************************************************)
\* the number of file-system events the environment delivers
MaxEvents == 3
\* the number of times the build command is run on one source tree
MaxRuns == 2
\* the length of the CSV texts the rows conversion is tried on
MaxCsvLen == 5

(***************************************************************************)
(* Program constants.                                                      *)
(***************************************************************************)
\* setTimeout(..., 600) of the build timer, in units of 100 ms
DebounceDelay == 6
\* setTimeout(..., 500) of the re-queue timer, in units of 100 ms
RequeueDelay == 5

\* the paths the watcher reports
Paths == {"index.html", "js/app.js"}

(***************************************************************************)
(* The files of the model's source tree and the configuration of build.js. *)
(***************************************************************************)

IndexHtml == "index.html"

EngHtml == "engineering_responsibilities.html"

StyleCss == "css/style.css"

BootstrapCss == "css/bootstrap.css"

AppJs == "js/app.js"

AppMinJs == "js/app.min.js"

BootstrapJs == "js/bootstrap.js"

LogoPng == "img/logo.png"

Cname == "CNAME"

DetailsJson == "data/company_details.json"

CompactCsv == "data/engineering_responsibilities_compact.csv"

\* the files a source tree of the model may hold, in directory order
UniverseSeq ==
    <<IndexHtml, EngHtml, StyleCss, BootstrapCss, AppJs, AppMinJs, BootstrapJs,
      LogoPng, Cname, DetailsJson, CompactCsv>>

Universe == {UniverseSeq[i] : i \in DOMAIN UniverseSeq}

\* path.join(config.outputDir, "vendor", "chart.min.js"), relative to the output directory
ChartMinJs == "vendor/chart.min.js"

\* a file of the output directory that no source file stands behind
StalePath == "old.html"

\* the one markup file the preprocessing hook applies to
EngineeringPage == "engineering_responsibilities.html"

\* config.htmlFiles
htmlFiles ==
    <<"*.html">>

\* config.cssFiles
cssFiles ==
    <<"css/**/*.css">>

\* config.jsFiles
jsFiles ==
    <<"js/**/*.js">>

\* config.excludeJsFiles
excludeJsFiles ==
    <<"js/bootstrap.js", "js/bootstrap.min.js">>

\* config.imageFiles
imageFiles ==
    <<"img/**/*.{webp,svg,png,pdf}">>

\* config.copyFiles
copyFiles ==
    <<"CNAME", "LICENSE", "README.md", "data/**/*", "favicon.ico",
      "favicon.svg", "favicon-*.png", "apple-touch-icon*.png",
      "android-chrome-*.png", "site.webmanifest", "browserconfig.xml",
      "mstile-*.png">>

\* config.excludePatterns
excludePatterns ==
    <<"node_modules/**", "dist/**", ".git/**", ".vscode/**", "*.min.css",
      "*.min.js", "*.map", "css/bootstrap*.css">>

\* the content globs processCssFiles hands to PurgeCSS (sourceDir is ".")
purgeContent ==
    <<"*.html", "js/**/*.js">>

(***************************************************************************)
(* The characters of every path and pattern above, so that the glob and    *)
(* regular-expression matching of the code can be computed on them.        *)
(***************************************************************************)
Chars ==
    ("index.html" :>
        <<"i","n","d","e","x",".","h","t","m","l">>) @@
    ("engineering_responsibilities.html" :>
        <<"e","n","g","i","n","e","e","r","i","n","g","_","r","e","s","p","o","n","s","i","b","i","l","i","t","i","e","s",".","h","t","m","l">>) @@
    ("css/style.css" :>
        <<"c","s","s","/","s","t","y","l","e",".","c","s","s">>) @@
    ("css/bootstrap.css" :>
        <<"c","s","s","/","b","o","o","t","s","t","r","a","p",".","c","s","s">>) @@
    ("js/app.js" :>
        <<"j","s","/","a","p","p",".","j","s">>) @@
    ("js/app.min.js" :>
        <<"j","s","/","a","p","p",".","m","i","n",".","j","s">>) @@
    ("js/bootstrap.js" :>
        <<"j","s","/","b","o","o","t","s","t","r","a","p",".","j","s">>) @@
    ("img/logo.png" :>
        <<"i","m","g","/","l","o","g","o",".","p","n","g">>) @@
    ("CNAME" :>
        <<"C","N","A","M","E">>) @@
    ("data/company_details.json" :>
        <<"d","a","t","a","/","c","o","m","p","a","n","y","_","d","e","t","a","i","l","s",".","j","s","o","n">>) @@
    ("data/engineering_responsibilities_compact.csv" :>
        <<"d","a","t","a","/","e","n","g","i","n","e","e","r","i","n","g","_","r","e","s","p","o","n","s","i","b","i","l","i","t","i","e","s","_","c","o","m","p","a","c","t",".","c","s","v">>) @@
    ("vendor/chart.min.js" :>
        <<"v","e","n","d","o","r","/","c","h","a","r","t",".","m","i","n",".","j","s">>) @@
    ("old.html" :>
        <<"o","l","d",".","h","t","m","l">>) @@
    ("*.html" :>
        <<"*",".","h","t","m","l">>) @@
    ("css/**/*.css" :>
        <<"c","s","s","/","*","*","/","*",".","c","s","s">>) @@
    ("js/**/*.js" :>
        <<"j","s","/","*","*","/","*",".","j","s">>) @@
    ("js/bootstrap.min.js" :>
        <<"j","s","/","b","o","o","t","s","t","r","a","p",".","m","i","n",".","j","s">>) @@
    ("img/**/*.{webp,svg,png,pdf}" :>
        <<"i","m","g","/","*","*","/","*",".","{","w","e","b","p",",","s","v","g",",","p","n","g",",","p","d","f","}">>) @@
    ("LICENSE" :>
        <<"L","I","C","E","N","S","E">>) @@
    ("README.md" :>
        <<"R","E","A","D","M","E",".","m","d">>) @@
    ("data/**/*" :>
        <<"d","a","t","a","/","*","*","/","*">>) @@
    ("favicon.ico" :>
        <<"f","a","v","i","c","o","n",".","i","c","o">>) @@
    ("favicon.svg" :>
        <<"f","a","v","i","c","o","n",".","s","v","g">>) @@
    ("favicon-*.png" :>
        <<"f","a","v","i","c","o","n","-","*",".","p","n","g">>) @@
    ("apple-touch-icon*.png" :>
        <<"a","p","p","l","e","-","t","o","u","c","h","-","i","c","o","n","*",".","p","n","g">>) @@
    ("android-chrome-*.png" :>
        <<"a","n","d","r","o","i","d","-","c","h","r","o","m","e","-","*",".","p","n","g">>) @@
    ("site.webmanifest" :>
        <<"s","i","t","e",".","w","e","b","m","a","n","i","f","e","s","t">>) @@
    ("browserconfig.xml" :>
        <<"b","r","o","w","s","e","r","c","o","n","f","i","g",".","x","m","l">>) @@
    ("mstile-*.png" :>
        <<"m","s","t","i","l","e","-","*",".","p","n","g">>) @@
    ("node_modules/**" :>
        <<"n","o","d","e","_","m","o","d","u","l","e","s","/","*","*">>) @@
    ("dist/**" :>
        <<"d","i","s","t","/","*","*">>) @@
    (".git/**" :>
        <<".","g","i","t","/","*","*">>) @@
    (".vscode/**" :>
        <<".","v","s","c","o","d","e","/","*","*">>) @@
    ("*.min.css" :>
        <<"*",".","m","i","n",".","c","s","s">>) @@
    ("*.min.js" :>
        <<"*",".","m","i","n",".","j","s">>) @@
    ("*.map" :>
        <<"*",".","m","a","p">>) @@
    ("css/bootstrap*.css" :>
        <<"c","s","s","/","b","o","o","t","s","t","r","a","p","*",".","c","s","s">>)

(***************************************************************************)
(* Glob matching, as the glob library resolves the patterns of the         *)
(* configuration: "/" separates segments, "*" matches within a segment,    *)
(* "**" matches any number of segments, "{a,b}" is an alternation.         *)
(***************************************************************************)
FirstIndex(s, c) == CHOOSE i \in 1..Len(s) : s[i] = c /\ \A j \in 1..(i - 1) : s[j] # c

Contains(s, c) == \E i \in 1..Len(s) : s[i] = c

RECURSIVE Split(_, _)
Split(s, sep) ==
    IF ~Contains(s, sep) THEN <<s>>
    ELSE LET i == FirstIndex(s, sep)
         IN  <<SubSeq(s, 1, i - 1)>> \o Split(SubSeq(s, i + 1, Len(s)), sep)

RECURSIVE ExpandBraces(_)
ExpandBraces(p) ==
    IF ~Contains(p, "{") THEN {p}
    ELSE LET o == FirstIndex(p, "{")
             c == FirstIndex(p, "}")
             alts == Split(SubSeq(p, o + 1, c - 1), ",")
         IN  UNION {ExpandBraces(SubSeq(p, 1, o - 1) \o alts[k] \o SubSeq(p, c + 1, Len(p)))
                      : k \in DOMAIN alts}

RECURSIVE SegMatch(_, _)
SegMatch(p, n) ==
    IF p = <<>> THEN n = <<>>
    ELSE IF Head(p) = "*"
         THEN SegMatch(Tail(p), n) \/ (n # <<>> /\ SegMatch(p, Tail(n)))
         ELSE n # <<>> /\ Head(p) = Head(n) /\ SegMatch(Tail(p), Tail(n))

RECURSIVE SegsMatch(_, _)
SegsMatch(ps, ns) ==
    IF ps = <<>> THEN ns = <<>>
    ELSE IF Head(ps) = <<"*", "*">>
         THEN SegsMatch(Tail(ps), ns) \/ (ns # <<>> /\ SegsMatch(ps, Tail(ns)))
         ELSE ns # <<>> /\ SegMatch(Head(ps), Head(ns)) /\ SegsMatch(Tail(ps), Tail(ns))

GlobMatch(pattern, file) ==
    \E q \in ExpandBraces(Chars[pattern]) :
        SegsMatch(Split(q, "/"), Split(Chars[file], "/"))

MatchesAny(patterns, file) == \E k \in DOMAIN patterns : GlobMatch(patterns[k], file)

(***************************************************************************)
(* shouldExclude: each exclusion pattern is rewritten into a regular       *)
(* expression by two textual replacements and searched for in the path.    *)
(***************************************************************************)
\* pattern.replace(/\*\*/g, ".*")
RECURSIVE ReplaceGlobstar(_)
ReplaceGlobstar(p) ==
    IF p = <<>> THEN <<>>
    ELSE IF Len(p) >= 2 /\ p[1] = "*" /\ p[2] = "*"
         THEN <<".", "*">> \o ReplaceGlobstar(SubSeq(p, 3, Len(p)))
         ELSE <<Head(p)>> \o ReplaceGlobstar(Tail(p))

\* .replace(/\*/g, "[^/]*")
RECURSIVE ReplaceStar(_)
ReplaceStar(p) ==
    IF p = <<>> THEN <<>>
    ELSE IF Head(p) = "*"
         THEN <<"[", "^", "/", "]", "*">> \o ReplaceStar(Tail(p))
         ELSE <<Head(p)>> \o ReplaceStar(Tail(p))

\* the source text of the regular expression shouldExclude builds
RegexSource(pattern) == ReplaceStar(ReplaceGlobstar(pattern))

\* new RegExp(source): "." is any character, "[^/]*" a run of non-slashes,
\* every other character of these patterns stands for itself
RECURSIVE RegexAtoms(_)
RegexAtoms(r) ==
    IF r = <<>> THEN <<>>
    ELSE IF Len(r) >= 5 /\ SubSeq(r, 1, 5) = <<"[", "^", "/", "]", "*">>
         THEN <<"NOTSLASH*">> \o RegexAtoms(SubSeq(r, 6, Len(r)))
         ELSE IF Head(r) = "."
              THEN <<"ANY">> \o RegexAtoms(Tail(r))
              ELSE <<Head(r)>> \o RegexAtoms(Tail(r))

\* the atoms match a prefix of s
RECURSIVE MatchPrefix(_, _)
MatchPrefix(atoms, s) ==
    IF atoms = <<>> THEN TRUE
    ELSE IF Head(atoms) = "NOTSLASH*"
         THEN MatchPrefix(Tail(atoms), s)
              \/ (s # <<>> /\ Head(s) # "/" /\ MatchPrefix(atoms, Tail(s)))
         ELSE /\ s # <<>>
              /\ Head(atoms) = "ANY" \/ Head(atoms) = Head(s)
              /\ MatchPrefix(Tail(atoms), Tail(s))

\* regex.test(file): an unanchored search
RegexTest(atoms, file) ==
    \E i \in 1..(Len(file) + 1) : MatchPrefix(atoms, SubSeq(file, i, Len(file)))

shouldExclude(file) ==
    \E k \in DOMAIN excludePatterns :
        RegexTest(RegexAtoms(RegexSource(Chars[excludePatterns[k]])), Chars[file])

\* config.excludeJsFiles.includes(file)
IsExcludedJs(file) == \E k \in DOMAIN excludeJsFiles : excludeJsFiles[k] = file

(***************************************************************************)
(* The state.                                                              *)
(***************************************************************************)
VARIABLES
    \* ---- the file system
    src,            \* the files present in the source tree
    out,            \* the output directory: relative path -> content
    outDirExists,   \* the output directory exists
    \* ---- the process running build()
    pc,             \* the step build() is at: "off", a step, "done" or "failed"
    todo,           \* the files the current step's loop has still to visit
    run,            \* the number of this process run
    status,         \* "running", "exit0" or "exit1"
    env,            \* what the transforms do on this source tree (fixed per tree)
    \* ---- history of the current run
    reads,          \* the source files this run has read
    written,        \* the source files this run has written an output for
    trace,          \* the steps this run has entered, in order
    minifyThrew,    \* the script files whose minification threw in this run
    purgeUnusable,  \* the style files whose purge threw or returned nothing usable
    htmlThrew,      \* the markup transform threw in this run
    ioFailed,       \* a remove or a copy of this run failed for good
    prevOut,        \* the output tree the previous run ended with
    prevValid,      \* the previous run succeeded on the source tree of this run
    srcAtStart      \* the source tree as this run found it

fsVars == <<src, out, outDirExists>>
ctlVars == <<pc, todo, run, status, env>>
obsVars == <<reads, written, trace, minifyThrew, purgeUnusable, htmlThrew, ioFailed,
             prevOut, prevValid, srcAtStart>>
obsVarsButTrace == <<reads, written, minifyThrew, purgeUnusable, htmlThrew, ioFailed,
                    prevOut, prevValid, srcAtStart>>
buildVars == <<fsVars, ctlVars, obsVars>>

VARIABLES
    \* ---- the process (build.js run with or without --watch)
    isWatchMode,    \* this.isWatchMode
    alive,          \* the process has not exited
    exitCode,       \* the status passed to process.exit, 0 while none
    initialBuild,   \* the top-level builder.build() is in flight
    watchers,       \* one record per startWatchMode() call: its closure state
    \* ---- history of the watch loop
    events,         \* file-system events delivered so far
    rebuilds,       \* builds started by a timer callback so far
    sinceEvent,     \* time since the last event, capped at DebounceDelay
    spread,         \* every event so far arrived with no timer and no build
    burstClean,     \* the events since the burst began all arrived with no build in flight
    burstBuilds,    \* builds started since the current burst began
    uncovered,      \* an event arrived during a build and no build started since
    overlapped,     \* a build started while a build that received an event was in flight
    failedRebuild   \* some rebuild has failed

watchVars == <<isWatchMode, alive, exitCode, initialBuild, watchers>>
histVars == <<events, rebuilds, sinceEvent, spread, burstClean, burstBuilds,
              uncovered, overlapped, failedRebuild>>

VARIABLES
    \* ---- the environment of one run of scripts/test-lighthouse.js
    platform,       \* process.platform: "win32" or "posix"
    distExists,     \* the output directory "dist" exists
    occupied,       \* the ports another process has bound
    server,         \* the static server: "none", "serving", "unresponsive" or "stopped"
    \* ---- runLighthouseTests
    apc,            \* where runLighthouseTests is at
    resultsDir,     \* the timestamped results directory has been created
    probes,         \* the number of ports findAvailablePort has tried to bind
    selectedPort,   \* selectedPort, 0 while null
    serverProcess,  \* serverProcess is not null
    pageIndex,      \* the index in testUrls of the page the loop is at
    profileDir,     \* the browser profile directory of the current page exists
    results,        \* results: one record per page pushed
    auditExit,      \* the exit status of the process, -1 while it runs
    \* ---- history of the run
    pageLog,        \* per page the loop has entered: what the tool did and what followed
    signals,        \* the termination requests sent to the server, in order
    manualShown,    \* the manual-testing instructions of the setup catch were printed
    softSuccess,    \* the "no results" success message was printed
    listed,         \* the <<page, category>> violations printed under "Issues found"
    evaluated       \* the result evaluation (after the finally block) has begun

auditEnvVars == <<platform, distExists, occupied, server>>
auditCtlVars == <<apc, resultsDir, probes, selectedPort, serverProcess, pageIndex,
                  profileDir, results, auditExit>>
auditObsVars == <<pageLog, signals, manualShown, softSuccess, listed, evaluated>>
auditVars == <<auditEnvVars, auditCtlVars, auditObsVars>>

VARIABLES
    \* ---- one call of a function of the program, taken on its own
    call,           \* the function called and its arguments
    ret             \* what the call has returned or thrown, once it has ended

fnVars == <<call, ret>>

(***************************************************************************)
(* The build pipeline: build() and its steps, one process run at a time.   *)
(***************************************************************************)
\* no file at a path, or a null or undefined value
Absent == <<"absent">>

\* the empty string, as a content
EmptyText == <<"">>

\* a directory tree: relative path -> content, for the files it holds
EmptyTree == <<>>

\* the content at path p of tree, or Absent
FileAt(tree, p) == IF p \in DOMAIN tree THEN tree[p] ELSE Absent

\* fs.writeFile / fs.copy to path p of tree
WriteFile(tree, p, content) ==
    [q \in DOMAIN tree \cup {p} |-> IF q = p THEN content ELSE tree[q]]

\* the content of source file f, as fs.readFile returns it
SrcContent(f) == <<"source", f>>

StaleContent == <<"stale">>

\* the transforms, as pure functions of their input
HtmlMinify(content) == <<"html-minifier", content>>

CleanCss(content) == <<"clean-css", content>>

Terser(content) == <<"terser", content>>

ChartBundle == <<"esbuild", "chart.js">>

\* path.basename(filePath)
basename(filePath) == LET segs == Split(Chars[filePath], "/") IN segs[Len(segs)]

\* fs.readFileSync inside try {} catch (_) {}: the content, or null
ReadOrNull(f) == IF f \in src THEN SrcContent(f) ELSE Absent

\* preprocessHtmlContent(filePath, htmlContent)
preprocessHtmlContent(filePath, htmlContent) ==
    IF basename(filePath) # Chars[EngineeringPage] THEN htmlContent
    ELSE LET embeddedCompanyDetails == ReadOrNull(DetailsJson)
             embeddedCsv == ReadOrNull(CompactCsv)
         IN  IF embeddedCompanyDetails = Absent /\ embeddedCsv = Absent
             THEN htmlContent
             ELSE <<"injected", htmlContent, embeddedCompanyDetails, embeddedCsv>>

\* the auxiliary files preprocessHtmlContent reads for filePath
AuxReads(filePath) ==
    IF basename(filePath) # Chars[EngineeringPage] THEN {}
    ELSE {DetailsJson, CompactCsv} \cap src

\* glob(pattern, {cwd: config.sourceDir, ignore: config.excludePatterns})
glob(pattern) ==
    SelectSeq(UniverseSeq,
              LAMBDA f : /\ f \in src
                         /\ GlobMatch(pattern, f)
                         /\ ~MatchesAny(excludePatterns, f))

\* getFiles(patterns): the matches of each pattern, concatenated
RECURSIVE getFiles(_)
getFiles(patterns) ==
    IF patterns = <<>> THEN <<>>
    ELSE glob(Head(patterns)) \o getFiles(Tail(patterns))

\* the files PurgeCSS reads as content: its globs carry no ignore list
PurgeScan == {f \in src : MatchesAny(purgeContent, f)}

\* new PurgeCSS().purge(...) when it returns: the css of its first result
PurgeResult(outcome, content) ==
    CASE outcome = "css" -> <<"purgecss", content, PurgeScan>>
      [] outcome = "empty" -> EmptyText
      [] OTHER -> Absent

\* purgedResult[0]?.css || content
PurgedOrOriginal(result, content) ==
    IF result = Absent \/ result = EmptyText THEN content ELSE result

\* the outcomes of one fs.remove or fs.copy attempt
Outcomes == {"ok", "EPERM", "EBUSY", "ENOSPC"}

\* let retries = 3 in cleanOutput
CleanRetries == 3

\* let retries = 3 in robustCopy
CopyRetries == 3

\* a cleanOutput that returns without removing the directory
cleanOutputKeeps(outcomes, retries, attempts) ==
    [threw |-> FALSE, removed |-> FALSE, attempts |-> attempts]

\* the loop of cleanOutput over the outcomes of its attempts
RECURSIVE cleanOutput(_, _, _)
cleanOutput(outcomes, retries, attempts) ==
    IF ~(retries > 0) THEN [threw |-> FALSE, removed |-> FALSE, attempts |-> attempts]
    ELSE IF Head(outcomes) = "ok"
         THEN [threw |-> FALSE, removed |-> TRUE, attempts |-> attempts + 1]
         ELSE IF Head(outcomes) = "EPERM" /\ retries > 1
              THEN cleanOutput(Tail(outcomes), retries - 1, attempts + 1)
              ELSE [threw |-> TRUE, removed |-> FALSE, attempts |-> attempts + 1]

\* a robustCopy that gives up at the first error
robustCopyOnce(outcomes, retries, attempts) ==
    [threw |-> Head(outcomes) # "ok", copied |-> Head(outcomes) = "ok",
     attempts |-> attempts + 1]

\* the loop of robustCopy over the outcomes of its attempts
RECURSIVE robustCopy(_, _, _)
robustCopy(outcomes, retries, attempts) ==
    IF ~(retries > 0) THEN [threw |-> FALSE, copied |-> FALSE, attempts |-> attempts]
    ELSE IF Head(outcomes) = "ok"
         THEN [threw |-> FALSE, copied |-> TRUE, attempts |-> attempts + 1]
         ELSE IF Head(outcomes) \in {"EBUSY", "EPERM"} /\ retries > 1
              THEN robustCopy(Tail(outcomes), retries - 1, attempts + 1)
              ELSE [threw |-> TRUE, copied |-> FALSE, attempts |-> attempts + 1]

\* an order in which the scripts come before the styles
BuildOrderScriptsFirst ==
    <<"clean", "ensureDir", "html", "js", "css", "chart", "images", "static", "stats">>

\* the order of the awaits in build()
BuildOrder ==
    <<"clean", "ensureDir", "html", "css", "js", "chart", "images", "static", "stats">>

NextStep(step) ==
    LET i == CHOOSE k \in DOMAIN BuildOrder : BuildOrder[k] = step
    IN  IF i < Len(BuildOrder) THEN BuildOrder[i + 1] ELSE "done"

\* the file list a step resolves when it begins
StepFiles(step) ==
    CASE step = "html" -> getFiles(htmlFiles)
      [] step = "css" -> getFiles(cssFiles)
      [] step = "js" -> getFiles(jsFiles)
      [] step = "images" -> getFiles(imageFiles)
      [] step = "static" -> getFiles(copyFiles)
      [] OTHER -> <<>>

LoopSteps == {"html", "css", "js", "images", "static"}

\* a catch that logs and lets the process end normally
BuildCatchNoExit == "exit0"

\* the status build()'s catch leaves the process with: process.exit(1)
BuildCatchStatus == "exit1"

\* a step returns and build() awaits the next one
Enter(step) ==
    /\ pc' = step
    /\ trace' = Append(trace, step)
    /\ todo' = StepFiles(step)
    /\ UNCHANGED status

\* the loop of a step goes on to its next file
NextFile ==
    /\ todo' = Tail(todo)
    /\ UNCHANGED <<pc, trace, status>>

\* a step throws: build()'s catch logs and exits
Throw ==
    /\ pc' = "failed"
    /\ status' = BuildCatchStatus
    /\ UNCHANGED <<trace, todo>>

Running(step) == pc = step /\ status = "running"

EnvSpace ==
    [htmlThrows : SUBSET {IndexHtml, EngHtml},
     purge : {"css", "empty", "none", "throws"},
     jsThrows : SUBSET {AppJs},
     chartOk : BOOLEAN]

BuildInit ==
    /\ src \in {Universe, Universe \ {DetailsJson, CompactCsv}}
    /\ out \in {EmptyTree, WriteFile(EmptyTree, StalePath, StaleContent)}
    /\ outDirExists = (out # EmptyTree)
    /\ pc = "clean"
    /\ todo = <<>>
    /\ run = 1
    /\ status = "running"
    /\ env \in EnvSpace
    /\ reads = {}
    /\ written = {}
    /\ trace = <<"clean">>
    /\ minifyThrew = {}
    /\ purgeUnusable = {}
    /\ htmlThrew = FALSE
    /\ ioFailed = FALSE
    /\ prevOut = EmptyTree
    /\ prevValid = FALSE
    /\ srcAtStart = src

\* the build variables while the model follows the watch loop only
BuildOff ==
    /\ src = {}
    /\ out = EmptyTree
    /\ outDirExists = FALSE
    /\ pc = "off"
    /\ todo = <<>>
    /\ run = 0
    /\ status = "running"
    /\ env = [htmlThrows |-> {}, purge |-> "css", jsThrows |-> {}, chartOk |-> TRUE]
    /\ reads = {}
    /\ written = {}
    /\ trace = <<>>
    /\ minifyThrew = {}
    /\ purgeUnusable = {}
    /\ htmlThrew = FALSE
    /\ ioFailed = FALSE
    /\ prevOut = EmptyTree
    /\ prevValid = FALSE
    /\ srcAtStart = src

\* a removal that leaves the files of the directory where they are
AfterRemoveKeepsFiles(tree) == tree

\* fs.remove(config.outputDir): the directory and all it holds are gone
AfterRemove(tree) == EmptyTree

\* await this.cleanOutput()
CleanOutputStep ==
    /\ UNCHANGED <<watchVars, histVars, auditVars, fnVars>>
    /\ Running("clean")
    /\ \E outcomes \in [1..CleanRetries -> Outcomes] :
         LET r == cleanOutput(outcomes, CleanRetries, 0)
         IN  IF r.threw
             THEN /\ Throw
                  /\ ioFailed' = TRUE
                  /\ UNCHANGED <<out, outDirExists>>
             ELSE /\ Enter("ensureDir")
                  /\ out' = IF r.removed THEN AfterRemove(out) ELSE out
                  /\ outDirExists' = IF r.removed THEN FALSE ELSE outDirExists
                  /\ UNCHANGED ioFailed
    /\ UNCHANGED <<src, run, env, reads, written, minifyThrew, purgeUnusable,
                   htmlThrew, prevOut, prevValid, srcAtStart>>

\* await fs.ensureDir(config.outputDir)
EnsureDirStep ==
    /\ UNCHANGED <<watchVars, histVars, auditVars, fnVars>>
    /\ Running("ensureDir")
    /\ outDirExists' = TRUE
    /\ Enter("html")
    /\ UNCHANGED <<src, out, run, env, obsVarsButTrace>>

\* one iteration of the loop of processHtmlFiles
processHtmlFiles ==
    /\ UNCHANGED <<watchVars, histVars, auditVars, fnVars>>
    /\ Running("html") /\ todo # <<>>
    /\ LET file == Head(todo)
           content == preprocessHtmlContent(file, SrcContent(file))
       IN  IF shouldExclude(file)
           THEN /\ NextFile
                /\ UNCHANGED <<out, reads, written, htmlThrew>>
           ELSE /\ reads' = reads \cup {file} \cup AuxReads(file)
                /\ IF file \in env.htmlThrows
                   THEN /\ Throw
                        /\ htmlThrew' = TRUE
                        /\ UNCHANGED <<out, written>>
                   ELSE /\ NextFile
                        /\ out' = WriteFile(out, file, HtmlMinify(content))
                        /\ written' = written \cup {file}
                        /\ UNCHANGED htmlThrew
    /\ UNCHANGED <<src, outDirExists, run, env, minifyThrew, purgeUnusable, ioFailed,
                   prevOut, prevValid, srcAtStart>>

\* one iteration of the loop of processCssFiles
processCssFiles ==
    /\ UNCHANGED <<watchVars, histVars, auditVars, fnVars>>
    /\ Running("css") /\ todo # <<>>
    /\ LET file == Head(todo)
           content == SrcContent(file)
           purgedCSS == PurgedOrOriginal(PurgeResult(env.purge, content), content)
       IN  IF shouldExclude(file)
           THEN /\ NextFile
                /\ UNCHANGED <<out, reads, written, purgeUnusable>>
           ELSE /\ reads' = reads \cup {file} \cup PurgeScan
                /\ purgeUnusable' = IF env.purge = "css" THEN purgeUnusable
                                    ELSE purgeUnusable \cup {file}
                /\ IF env.purge = "throws"
                   THEN /\ Throw
                        /\ UNCHANGED <<out, written>>
                   ELSE /\ NextFile
                        /\ out' = WriteFile(out, file, CleanCss(purgedCSS))
                        /\ written' = written \cup {file}
    /\ UNCHANGED <<src, outDirExists, run, env, minifyThrew, htmlThrew, ioFailed,
                   prevOut, prevValid, srcAtStart>>

\* a fallback that leaves the output path without the file
JsFallbackNothing(file) == Absent

\* what the catch of processJsFiles copies to the output path: the source file
JsFallbackContent(file) == SrcContent(file)

\* one iteration of the loop of processJsFiles
processJsFiles ==
    /\ UNCHANGED <<watchVars, histVars, auditVars, fnVars>>
    /\ Running("js") /\ todo # <<>>
    /\ LET file == Head(todo)
           content == SrcContent(file)
       IN  IF shouldExclude(file) \/ IsExcludedJs(file)
           THEN /\ NextFile
                /\ UNCHANGED <<out, reads, written, minifyThrew, ioFailed>>
           ELSE /\ reads' = reads \cup {file}
                /\ IF file \notin env.jsThrows
                   THEN /\ NextFile
                        /\ out' = WriteFile(out, file, Terser(content))
                        /\ written' = written \cup {file}
                        /\ UNCHANGED <<minifyThrew, ioFailed>>
                   ELSE /\ minifyThrew' = minifyThrew \cup {file}
                        /\ \E outcomes \in [1..CopyRetries -> Outcomes] :
                             LET r == robustCopy(outcomes, CopyRetries, 0)
                             IN  IF r.threw
                                 THEN /\ Throw
                                      /\ ioFailed' = TRUE
                                      /\ UNCHANGED <<out, written>>
                                 ELSE /\ NextFile
                                      /\ out' = IF r.copied
                                                THEN WriteFile(out, file,
                                                          JsFallbackContent(file))
                                                ELSE out
                                      /\ written' = IF r.copied
                                                    THEN written \cup {file}
                                                    ELSE written
                                      /\ UNCHANGED ioFailed
    /\ UNCHANGED <<src, outDirExists, run, env, purgeUnusable, htmlThrew,
                   prevOut, prevValid, srcAtStart>>

\* the loop of a step has visited every file: the step returns
StepReturns ==
    /\ UNCHANGED <<watchVars, histVars, auditVars, fnVars>>
    /\ pc \in LoopSteps /\ status = "running" /\ todo = <<>>
    /\ Enter(NextStep(pc))
    /\ UNCHANGED <<fsVars, run, env, obsVarsButTrace>>

\* await this.bundleChartModule(): best effort, every error is caught
bundleChartModule ==
    /\ UNCHANGED <<watchVars, histVars, auditVars, fnVars>>
    /\ Running("chart")
    /\ out' = IF env.chartOk THEN WriteFile(out, ChartMinJs, ChartBundle) ELSE out
    /\ Enter("images")
    /\ UNCHANGED <<src, outDirExists, run, env, obsVarsButTrace>>

\* one iteration of a copy loop: robustCopy(sourcePath, outputPath, file)
CopyIteration ==
    /\ UNCHANGED <<watchVars, histVars, auditVars, fnVars>>
    /\ todo # <<>>
    /\ LET file == Head(todo)
       IN  IF shouldExclude(file)
           THEN /\ NextFile
                /\ UNCHANGED <<out, reads, written, ioFailed>>
           ELSE /\ reads' = reads \cup {file}
                /\ \E outcomes \in [1..CopyRetries -> Outcomes] :
                     LET r == robustCopy(outcomes, CopyRetries, 0)
                     IN  IF r.threw
                         THEN /\ Throw
                              /\ ioFailed' = TRUE
                              /\ UNCHANGED <<out, written>>
                         ELSE /\ NextFile
                              /\ out' = IF r.copied
                                        THEN WriteFile(out, file, SrcContent(file))
                                        ELSE out
                              /\ written' = IF r.copied THEN written \cup {file}
                                            ELSE written
                              /\ UNCHANGED ioFailed
    /\ UNCHANGED <<src, outDirExists, run, env, minifyThrew, purgeUnusable, htmlThrew,
                   prevOut, prevValid, srcAtStart>>

\* one iteration of the loop of copyImages
copyImages == Running("images") /\ CopyIteration

\* one iteration of the loops of copyStaticFiles
copyStaticFiles == Running("static") /\ CopyIteration

\* await this.showBuildStatistics(), then build() returns and the process ends
showBuildStatistics ==
    /\ UNCHANGED <<watchVars, histVars, auditVars, fnVars>>
    /\ Running("stats")
    /\ pc' = "done"
    /\ status' = "exit0"
    /\ UNCHANGED <<fsVars, todo, run, env, obsVars>>

\* the source tree is edited between two runs: a file is deleted
EditSource(f) ==
    /\ UNCHANGED <<watchVars, histVars, auditVars, fnVars>>
    /\ pc \in {"done", "failed"}
    /\ f \in src \cap {AppJs, DetailsJson}
    /\ src' = src \ {f}
    /\ UNCHANGED <<out, outDirExists, ctlVars, obsVars>>

\* `node build.js` is run again; in between, the output directory may have
\* been given a file of its own
Rerun(stale) ==
    /\ UNCHANGED <<watchVars, histVars, auditVars, fnVars>>
    /\ pc \in {"done", "failed"}
    /\ run < MaxRuns
    /\ run' = run + 1
    /\ pc' = "clean"
    /\ status' = "running"
    /\ todo' = <<>>
    /\ trace' = <<"clean">>
    /\ prevOut' = out
    /\ prevValid' = (pc = "done" /\ srcAtStart = src)
    /\ srcAtStart' = src
    /\ out' = IF stale /\ outDirExists THEN WriteFile(out, StalePath, StaleContent)
              ELSE out
    /\ reads' = {}
    /\ written' = {}
    /\ minifyThrew' = {}
    /\ purgeUnusable' = {}
    /\ htmlThrew' = FALSE
    /\ ioFailed' = FALSE
    /\ UNCHANGED <<src, outDirExists, env>>

(***************************************************************************)
(* Watch mode: startWatchMode and debouncedBuild.                          *)
(***************************************************************************)
(***************************************************************************)
(* The closure state of one startWatchMode() call.                         *)
(***************************************************************************)
NoTimer == [kind |-> "none", rem |-> 0, path |-> ""]

\* let buildTimeout; let buildPromise = null; let pendingChanges = new Set()
NewWatcher == [buildTimeout |-> NoTimer, buildPromise |-> FALSE, pendingChanges |-> {}]

\* the timer the busy branch of debouncedBuild arms
RequeueTimer(filePath) == [kind |-> "requeue", rem |-> RequeueDelay, path |-> filePath]

\* the timer the idle branch of debouncedBuild arms
BuildTimer == [kind |-> "build", rem |-> DebounceDelay, path |-> ""]

\* debouncedBuild(eventType, filePath) on the closure state w
debouncedBuild(w, filePath) ==
    [w EXCEPT !.pendingChanges = @ \cup {filePath},
              !.buildTimeout = IF w.buildPromise THEN RequeueTimer(filePath)
                               ELSE BuildTimer]

\* the callback of the build timer: true when it goes on to start a build
TimerStartsBuild(w) == ~w.buildPromise

WatcherIds == 1..Len(watchers)

\* the builds in flight: 0 is the top-level build, w the build of watcher w
Building == {w \in WatcherIds : watchers[w].buildPromise}
             \cup (IF initialBuild THEN {0} ELSE {})

TimerPending(w) == watchers[w].buildTimeout.kind # "none"

TimerDue(w) == TimerPending(w) /\ watchers[w].buildTimeout.rem = 0

Idle == Building = {} /\ \A w \in WatcherIds : ~TimerPending(w)

Min(a, b) == IF a < b THEN a ELSE b

(***************************************************************************)
(* Initial state: `node build.js [--watch]` has called builder.build().    *)
(***************************************************************************)
WatchInit ==
    /\ isWatchMode \in BOOLEAN
    /\ alive = TRUE
    /\ exitCode = 0
    /\ initialBuild = TRUE
    /\ watchers = <<>>
    /\ events = 0
    /\ rebuilds = 0
    /\ sinceEvent = DebounceDelay
    /\ spread = TRUE
    /\ burstClean = FALSE
    /\ burstBuilds = 0
    /\ uncovered = FALSE
    /\ overlapped = FALSE
    /\ failedRebuild = FALSE

\* the tail of build(): success starts watch mode, failure exits with 1
InitialBuildComplete(ok) ==
    /\ UNCHANGED <<buildVars, auditVars, fnVars>>
    /\ alive /\ initialBuild
    /\ initialBuild' = FALSE
    /\ IF ok
       THEN /\ watchers' = IF isWatchMode THEN Append(watchers, NewWatcher) ELSE watchers
            /\ UNCHANGED <<alive, exitCode>>
       ELSE /\ alive' = FALSE
            /\ exitCode' = 1
            /\ UNCHANGED watchers
    /\ UNCHANGED <<isWatchMode, histVars>>

\* chokidar reports a change, add or unlink: every watcher's handler runs
FileEvent(filePath) ==
    /\ UNCHANGED <<buildVars, auditVars, fnVars>>
    /\ alive /\ Len(watchers) > 0
    /\ events < MaxEvents
    /\ watchers' = [w \in WatcherIds |-> debouncedBuild(watchers[w], filePath)]
    /\ events' = events + 1
    /\ sinceEvent' = 0
    /\ spread' = (spread /\ Idle)
    /\ IF Building = {}
       THEN IF burstClean /\ burstBuilds = 0 /\ sinceEvent < DebounceDelay
            THEN UNCHANGED <<burstClean, burstBuilds>>
            ELSE burstClean' = TRUE /\ burstBuilds' = 0
       ELSE burstClean' = FALSE /\ UNCHANGED burstBuilds
    /\ uncovered' = (uncovered \/ Building # {})
    /\ UNCHANGED <<isWatchMode, alive, exitCode, initialBuild, rebuilds,
                   overlapped, failedRebuild>>

\* 100 ms pass; a due timer runs before any more time passes
Tick ==
    /\ UNCHANGED <<buildVars, auditVars, fnVars>>
    /\ alive
    /\ \A w \in WatcherIds : ~TimerDue(w)
    /\ (\E w \in WatcherIds : TimerPending(w)) \/ sinceEvent < DebounceDelay
    /\ watchers' = [w \in WatcherIds |->
                      IF TimerPending(w)
                      THEN [watchers[w] EXCEPT !.buildTimeout.rem = @ - 1]
                      ELSE watchers[w]]
    /\ sinceEvent' = Min(sinceEvent + 1, DebounceDelay)
    /\ UNCHANGED <<isWatchMode, alive, exitCode, initialBuild, events, rebuilds,
                   spread, burstClean, burstBuilds, uncovered, overlapped,
                   failedRebuild>>

\* the re-queue timer fires: () => debouncedBuild(eventType, filePath)
RequeueFire(w) ==
    /\ UNCHANGED <<buildVars, auditVars, fnVars>>
    /\ alive /\ w \in WatcherIds /\ TimerDue(w)
    /\ watchers[w].buildTimeout.kind = "requeue"
    /\ watchers' = [watchers EXCEPT
                      ![w] = debouncedBuild([@ EXCEPT !.buildTimeout = NoTimer],
                                            watchers[w].buildTimeout.path)]
    /\ UNCHANGED <<isWatchMode, alive, exitCode, initialBuild, histVars>>

\* the build timer fires: skip if building, else clear the set and start build()
BuildTimerFire(w) ==
    /\ UNCHANGED <<buildVars, auditVars, fnVars>>
    /\ alive /\ w \in WatcherIds /\ TimerDue(w)
    /\ watchers[w].buildTimeout.kind = "build"
    /\ IF TimerStartsBuild(watchers[w])
       THEN /\ watchers' = [watchers EXCEPT ![w] =
                               [buildTimeout |-> NoTimer,
                                buildPromise |-> TRUE,
                                pendingChanges |-> {}]]
            /\ rebuilds' = rebuilds + 1
            /\ burstBuilds' = burstBuilds + 1
            /\ uncovered' = FALSE
            /\ overlapped' = (overlapped \/ (uncovered /\ Building # {}))
       ELSE /\ watchers' = [watchers EXCEPT ![w].buildTimeout = NoTimer]
            /\ UNCHANGED <<rebuilds, burstBuilds, uncovered, overlapped>>
    /\ UNCHANGED <<isWatchMode, alive, exitCode, initialBuild, events, sinceEvent,
                   spread, burstClean, failedRebuild>>

\* what a successful build() does to the watchers before it returns
AfterSuccessfulBuild(ws) == IF isWatchMode THEN Append(ws, NewWatcher) ELSE ws

\* the build of watcher w ends: build() either returns (after calling
\* startWatchMode again) or catches its error and calls process.exit(1)
BuildComplete(w, ok) ==
    /\ UNCHANGED <<buildVars, auditVars, fnVars>>
    /\ alive /\ w \in WatcherIds /\ watchers[w].buildPromise
    /\ IF ok
       THEN /\ watchers' = AfterSuccessfulBuild(
                              [watchers EXCEPT ![w].buildPromise = FALSE])
            /\ UNCHANGED <<alive, exitCode, failedRebuild>>
       ELSE /\ alive' = FALSE
            /\ exitCode' = 1
            /\ failedRebuild' = TRUE
            /\ UNCHANGED watchers
    /\ UNCHANGED <<isWatchMode, initialBuild, events, rebuilds, sinceEvent, spread,
                   burstClean, burstBuilds, uncovered, overlapped>>

(***************************************************************************)
(* The audit harness: scripts/test-lighthouse.js, one process run.         *)
(*                                                                         *)
(* A category score of the audit tool is a number between 0 and 1; the     *)
(* model counts scores in hundredths, so 0.85 is 85 and 1 is ScoreUnit,    *)
(* and the scaled score 85.0 is 8500.                                      *)
(***************************************************************************)
\* the value that stands for the score 1 (hundredths)
ScoreUnit == 100

\* result.categories.<c>.score * 100
ScoreScale == 100

\* r.<category> < 90
Target == 90

\* findAvailablePort(3000)
StartPort == 3000

\* port < startPort + 100
PortRange == 100

\* tryRemove(attempts = 3)
RemoveAttempts == 3

\* testUrls[i].name
testUrls == <<"Homepage", "Engineering Responsibilities", "Speaker Bio">>

\* the properties of one element of results, in the order they are compared
Categories == <<"performance", "accessibility", "bestPractices", "seo">>

\* ci.assert.assertions of the audit configuration: the level of each category
assertions ==
    [performance |-> "warn", accessibility |-> "error",
     bestPractices |-> "warn", seo |-> "warn"]

\* ci.assert.assertions: minScore of each category, in hundredths
minScore ==
    [performance |-> 90, accessibility |-> 90, bestPractices |-> 90, seo |-> 90]

\* the ports of occupied: a run of consecutive bound ports, empty when to < from
IsOccupied(busy, port) == busy.from <= port /\ port <= busy.to

\* the port ranges the model binds before the harness starts
OccupiedSpace ==
    {[from |-> StartPort, to |-> StartPort - 1],
     [from |-> StartPort, to |-> StartPort + 4],
     [from |-> StartPort, to |-> StartPort + PortRange - 2],
     [from |-> StartPort, to |-> StartPort + PortRange - 1]}

\* port < startPort + 100: the bound of the loop of findAvailablePort
ProbeLimitInclusive(startPort) == startPort + PortRange + 1

ProbeLimit(startPort) == startPort + PortRange

\* the loop of findAvailablePort reaches port: every port before it, from
\* startPort on, failed to bind (catch ... continue)
Reached(busy, startPort, port) ==
    \A q \in startPort..(port - 1) : IsOccupied(busy, q)

\* findAvailablePort(startPort): the port bound (0 when the loop ends and the
\* function throws) and the number of ports tried
findAvailablePort(busy, startPort) ==
    LET tried == {port \in startPort..(ProbeLimit(startPort) - 1) :
                      Reached(busy, startPort, port)}
        bound == {port \in tried : ~IsOccupied(busy, port)}
    IN  [port |-> IF bound = {} THEN 0 ELSE CHOOSE port \in bound : TRUE,
         probes |-> Cardinality(tried)]

\* killProcessTreeCrossPlatform(serverProcess): the requests it sends and the
\* state of the server afterwards; taskkillOk: taskkill ran and returned 0,
\* killOk: the signal of childProcess.kill ended the process
killProcessTreeCrossPlatform(plat, srv, taskkillOk, killOk) ==
    IF plat = "win32"
    THEN IF taskkillOk
         THEN [signals |-> <<"taskkill /T /F">>, server |-> "stopped"]
         ELSE [signals |-> <<"taskkill /T /F", "SIGTERM">>,
               server |-> IF killOk THEN "stopped" ELSE srv]
    ELSE [signals |-> <<"SIGTERM">>,
          server |-> IF killOk THEN "stopped" ELSE srv]

\* result.categories.<c>.score * 100
Scale(score) == score * ScoreScale

\* the element pushed to results for a report
ResultOf(name, report) ==
    [name |-> name,
     performance |-> Scale(report.performance),
     accessibility |-> Scale(report.accessibility),
     bestPractices |-> Scale(report.bestPractices),
     seo |-> Scale(report.seo)]

\* r.<category> < 90
BelowOrAtTarget(r, category) == r[category] <= Target * ScoreUnit

BelowTarget(r, category) == r[category] < Target * ScoreUnit

\* the filter of issues
IsIssue(r) == \E i \in 1..Len(Categories) : BelowTarget(r, Categories[i])

\* the reports the audit tool leaves for one page: none, unparsable text, a
\* report with a runtimeError (its category scores are null, which scale to
\* 0), or a report with four category scores
ScoreSpace ==
    {[performance |-> 90, accessibility |-> 90, bestPractices |-> 90, seo |-> 90],
     [performance |-> 85, accessibility |-> 100, bestPractices |-> 100, seo |-> 100],
     [performance |-> 100, accessibility |-> 89, bestPractices |-> 100, seo |-> 0]}

ReportSpace ==
    {[kind |-> "none"], [kind |-> "malformed"],
     [kind |-> "runtimeError", performance |-> 0, accessibility |-> 0,
      bestPractices |-> 0, seo |-> 0]}
        \cup {[kind |-> "scores", performance |-> s.performance,
               accessibility |-> s.accessibility,
               bestPractices |-> s.bestPractices, seo |-> s.seo] : s \in ScoreSpace}

\* run of spawnSync: a status of 0, a non-zero status, or a spawn error (timeout)
RunSpace == {"status0", "status1", "error"}

\* the audit variables while the model follows build.js
AuditOff ==
    /\ platform = "posix"
    /\ distExists = FALSE
    /\ occupied = [from |-> StartPort, to |-> StartPort - 1]
    /\ server = "none"
    /\ apc = "off"
    /\ resultsDir = FALSE
    /\ probes = 0
    /\ selectedPort = 0
    /\ serverProcess = FALSE
    /\ pageIndex = 1
    /\ profileDir = FALSE
    /\ results = <<>>
    /\ auditExit = -1
    /\ pageLog = <<>>
    /\ signals = <<>>
    /\ manualShown = FALSE
    /\ softSuccess = FALSE
    /\ listed = {}
    /\ evaluated = FALSE

\* `node scripts/test-lighthouse.js` has called runLighthouseTests()
AuditInit ==
    /\ platform \in {"win32", "posix"}
    /\ distExists \in BOOLEAN
    /\ occupied \in OccupiedSpace
    /\ server = "none"
    /\ apc = "start"
    /\ resultsDir = FALSE
    /\ probes = 0
    /\ selectedPort = 0
    /\ serverProcess = FALSE
    /\ pageIndex = 1
    /\ profileDir = FALSE
    /\ results = <<>>
    /\ auditExit = -1
    /\ pageLog = <<>>
    /\ signals = <<>>
    /\ manualShown = FALSE
    /\ softSuccess = FALSE
    /\ listed = {}
    /\ evaluated = FALSE

\* what one iteration of the page loop does with the tool's run and report:
\* "pushed" (an element is appended to results), "skipped" (continue),
\* "threw" (the iteration's catch logs the error) or "nothing"
PageOutcomeExitFirst(toolRun, report) ==
    IF toolRun # "status0" THEN "threw"
    ELSE IF report.kind = "none" THEN "nothing"
    ELSE IF report.kind = "malformed" THEN "threw"
    ELSE IF report.kind = "runtimeError" THEN "skipped"
    ELSE "pushed"

PageOutcomeKeepsErrors(toolRun, report) ==
    IF report.kind = "none"
    THEN IF toolRun # "status0" THEN "threw" ELSE "nothing"
    ELSE IF report.kind = "malformed" THEN "threw" ELSE "pushed"

\* a handling that throws whenever the tool leaves no report
PageOutcomeNeedsReport(toolRun, report) ==
    IF report.kind = "none" THEN "threw"
    ELSE IF report.kind = "malformed" THEN "threw"
    ELSE IF report.kind = "runtimeError" THEN "skipped"
    ELSE "pushed"

PageOutcome(toolRun, report) ==
    IF report.kind # "none"
    THEN IF report.kind = "malformed" THEN "threw"
         ELSE IF report.kind = "runtimeError" THEN "skipped"
         ELSE "pushed"
    ELSE IF toolRun # "status0" THEN "threw" ELSE "nothing"

\* where control goes from the catch of one iteration of the page loop
PageCatchAborts == "catch"

PageCatchGoesTo == "page"

\* tryRemove(attempts) when the first `failures` calls of fs.remove throw: the
\* calls made and whether the directory is gone
tryRemove(failures, attempts) ==
    IF failures < attempts
    THEN [calls |-> failures + 1, removed |-> TRUE]
    ELSE [calls |-> attempts, removed |-> FALSE]

\* !(await fs.pathExists("dist")) is false: the harness goes on
DistCheckSkipped(exists) == TRUE

DistCheckPasses(exists) == exists

\* if (serverProcess) of the finally block
FinallySkipsKill(proc) == FALSE

FinallyKills(proc) == proc

\* if (results.length > 0) of the result evaluation
HasResultsAlways(rs) == TRUE

HasResults(rs) == Len(rs) > 0

\* the entry of pageLog for one iteration
LogEntry(name, tool, toolRun, report, outcome) ==
    [name |-> name, tool |-> tool, run |-> toolRun, report |-> report,
     outcome |-> outcome, cleanup |-> FALSE]

\* runLighthouseTests up to the check of the output directory
CheckDist ==
    /\ apc = "start"
    /\ IF DistCheckPasses(distExists)
       THEN apc' = "ensureDir" /\ UNCHANGED auditExit
       ELSE apc' = "exited" /\ auditExit' = 1
    /\ UNCHANGED <<auditEnvVars, resultsDir, probes, selectedPort, serverProcess,
                   pageIndex, profileDir, results, auditObsVars>>
    /\ UNCHANGED <<watchVars, histVars, buildVars, fnVars>>

\* await fs.ensureDir(resultsBaseDir); a throw here rejects the promise of
\* runLighthouseTests, which .catch(console.error) logs
EnsureResultsDir(ok) ==
    /\ apc = "ensureDir"
    /\ IF ok
       THEN apc' = "resolve" /\ resultsDir' = TRUE /\ UNCHANGED auditExit
       ELSE apc' = "rejected" /\ auditExit' = 0 /\ UNCHANGED resultsDir
    /\ UNCHANGED <<auditEnvVars, probes, selectedPort, serverProcess,
                   pageIndex, profileDir, results, auditObsVars>>
    /\ UNCHANGED <<watchVars, histVars, buildVars, fnVars>>

\* resolveNodeScript("http-server", ...), resolveNodeScript("lighthouse", ...)
ResolveScripts(ok) ==
    /\ apc = "resolve"
    /\ IF ok
       THEN apc' = "findPort" /\ UNCHANGED auditExit
       ELSE apc' = "rejected" /\ auditExit' = 0
    /\ UNCHANGED <<auditEnvVars, resultsDir, probes, selectedPort, serverProcess,
                   pageIndex, profileDir, results, auditObsVars>>
    /\ UNCHANGED <<watchVars, histVars, buildVars, fnVars>>

\* selectedPort = await findAvailablePort(3000)
AcquirePort ==
    /\ apc = "findPort"
    /\ LET r == findAvailablePort(occupied, StartPort)
       IN  /\ probes' = r.probes
           /\ IF r.port = 0
              THEN apc' = "catch" /\ UNCHANGED selectedPort
              ELSE apc' = "spawn" /\ selectedPort' = r.port
    /\ UNCHANGED <<platform, distExists, occupied, server, resultsDir, serverProcess,
                   pageIndex, profileDir, results, auditExit, auditObsVars>>
    /\ UNCHANGED <<watchVars, histVars, buildVars, fnVars>>

\* serverProcess = spawn(...) and the 3 s wait; the server comes up, hangs,
\* or ends at once (the port was taken between the probe and its bind)
SpawnServer(state) ==
    /\ apc = "spawn"
    /\ serverProcess' = TRUE
    /\ server' = state
    /\ apc' = "liveness"
    /\ UNCHANGED <<platform, distExists, occupied, resultsDir, probes, selectedPort,
                   pageIndex, profileDir, results, auditExit, auditObsVars>>
    /\ UNCHANGED <<watchVars, histVars, buildVars, fnVars>>

\* the http.get of /index.html: an error or a timeout is rethrown
LivenessCheck ==
    /\ apc = "liveness"
    /\ apc' = IF server = "serving" THEN "page" ELSE "catch"
    /\ UNCHANGED <<auditEnvVars, resultsDir, probes, selectedPort, serverProcess,
                   pageIndex, profileDir, results, auditExit, auditObsVars>>
    /\ UNCHANGED <<watchVars, histVars, buildVars, fnVars>>

\* one iteration of `for (const url of testUrls)` up to tryRemove: the
\* profile directory, spawnSync of the tool, and the handling of its report
AuditPage(profileOk, toolRun, report) ==
    /\ apc = "page"
    /\ pageIndex <= Len(testUrls)
    /\ LET name == testUrls[pageIndex]
           outcome == IF profileOk THEN PageOutcome(toolRun, report) ELSE "threw"
           entry == IF profileOk
                    THEN LogEntry(name, TRUE, toolRun, report, outcome)
                    ELSE LogEntry(name, FALSE, "none", [kind |-> "none"], outcome)
       IN  /\ pageLog' = Append(pageLog, entry)
           /\ profileDir' = profileOk
           /\ results' = IF outcome = "pushed"
                         THEN Append(results, ResultOf(name, report))
                         ELSE results
           /\ IF outcome \in {"pushed", "nothing"}
              THEN apc' = "cleanup" /\ UNCHANGED pageIndex
              ELSE /\ pageIndex' = pageIndex + 1
                   /\ apc' = IF outcome = "threw" THEN PageCatchGoesTo ELSE "page"
    /\ UNCHANGED <<auditEnvVars, resultsDir, probes, selectedPort, serverProcess,
                   auditExit, signals, manualShown, softSuccess, listed, evaluated>>
    /\ UNCHANGED <<watchVars, histVars, buildVars, fnVars>>

\* await tryRemove() at the end of the iteration
RemoveProfile(failures) ==
    /\ apc = "cleanup"
    /\ LET r == tryRemove(failures, RemoveAttempts)
       IN  profileDir' = ~r.removed
    /\ pageLog' = [pageLog EXCEPT ![Len(pageLog)].cleanup = TRUE]
    /\ pageIndex' = pageIndex + 1
    /\ apc' = "page"
    /\ UNCHANGED <<auditEnvVars, resultsDir, probes, selectedPort, serverProcess,
                   results, auditExit, signals, manualShown, softSuccess, listed,
                   evaluated>>
    /\ UNCHANGED <<watchVars, histVars, buildVars, fnVars>>

\* the page loop has visited every element of testUrls
LoopEnds ==
    /\ apc = "page"
    /\ pageIndex > Len(testUrls)
    /\ apc' = "finally"
    /\ UNCHANGED <<auditEnvVars, resultsDir, probes, selectedPort, serverProcess,
                   pageIndex, profileDir, results, auditExit, auditObsVars>>
    /\ UNCHANGED <<watchVars, histVars, buildVars, fnVars>>

\* catch (error) of the outer try: the manual-testing instructions
SetupCatch ==
    /\ apc = "catch"
    /\ manualShown' = TRUE
    /\ apc' = "finally"
    /\ UNCHANGED <<auditEnvVars, resultsDir, probes, selectedPort, serverProcess,
                   pageIndex, profileDir, results, auditExit, pageLog, signals,
                   softSuccess, listed, evaluated>>
    /\ UNCHANGED <<watchVars, histVars, buildVars, fnVars>>

\* finally: if (serverProcess) killProcessTreeCrossPlatform(serverProcess)
Finally(taskkillOk, killOk) ==
    /\ apc = "finally"
    /\ IF FinallyKills(serverProcess)
       THEN LET k == killProcessTreeCrossPlatform(platform, server, taskkillOk, killOk)
            IN  signals' = signals \o k.signals /\ server' = k.server
       ELSE UNCHANGED <<signals, server>>
    /\ apc' = "evaluate"
    /\ UNCHANGED <<platform, distExists, occupied, resultsDir, probes, selectedPort,
                   serverProcess, pageIndex, profileDir, results, auditExit, pageLog,
                   manualShown, softSuccess, listed, evaluated>>
    /\ UNCHANGED <<watchVars, histVars, buildVars, fnVars>>

\* the display and check of results after the finally block
Evaluate ==
    /\ apc = "evaluate"
    /\ evaluated' = TRUE
    /\ IF HasResults(results)
       THEN LET issues == {i \in 1..Len(results) : IsIssue(results[i])}
            IN  /\ listed' = {<<results[p[1]].name, Categories[p[2]]>> :
                                  p \in {q \in issues \X (1..Len(Categories)) :
                                            BelowTarget(results[q[1]], Categories[q[2]])}}
                /\ IF issues # {}
                   THEN apc' = "exited" /\ auditExit' = 1
                   ELSE apc' = "returned" /\ auditExit' = 0
                /\ UNCHANGED softSuccess
       ELSE /\ softSuccess' = TRUE
            /\ apc' = "returned"
            /\ auditExit' = 0
            /\ UNCHANGED listed
    /\ UNCHANGED <<auditEnvVars, resultsDir, probes, selectedPort, serverProcess,
                   pageIndex, profileDir, results, pageLog, signals, manualShown>>
    /\ UNCHANGED <<watchVars, histVars, buildVars, fnVars>>

(***************************************************************************)
(* findAvailablePort(3000) on its own, one iteration of its loop at a time *)
(* (each iteration awaits the outcome of one listen).                      *)
(***************************************************************************)
\* the ports bound by other processes when findAvailablePort is called
PortOccupiedSpace ==
    {[from |-> f, to |-> t] :
        f \in {StartPort, StartPort + 1},
        t \in {StartPort - 1, StartPort, StartPort + 4, StartPort + PortRange - 2,
               StartPort + PortRange - 1, StartPort + PortRange}}

\* findAvailablePort(3000) has been called
PortInit ==
    /\ platform = "posix"
    /\ distExists = TRUE
    /\ occupied \in PortOccupiedSpace
    /\ server = "none"
    /\ apc = "probing"
    /\ resultsDir = FALSE
    /\ probes = 0
    /\ selectedPort = 0
    /\ serverProcess = FALSE
    /\ pageIndex = 1
    /\ profileDir = FALSE
    /\ results = <<>>
    /\ auditExit = -1
    /\ pageLog = <<>>
    /\ signals = <<>>
    /\ manualShown = FALSE
    /\ softSuccess = FALSE
    /\ listed = {}
    /\ evaluated = FALSE

\* one iteration of the for loop: listen on the port; return it, or continue
ProbePort ==
    /\ apc = "probing"
    /\ LET port == StartPort + probes
       IN  /\ port < ProbeLimit(StartPort)
           /\ probes' = probes + 1
           /\ IF IsOccupied(occupied, port)
              THEN UNCHANGED <<apc, selectedPort>>
              ELSE apc' = "probeReturned" /\ selectedPort' = port
    /\ UNCHANGED <<auditEnvVars, resultsDir, serverProcess, pageIndex, profileDir,
                   results, auditExit, auditObsVars>>
    /\ UNCHANGED <<watchVars, histVars, buildVars, fnVars>>

\* the loop ends: throw new Error("No available ports found")
ProbeExhausted ==
    /\ apc = "probing"
    /\ ~(StartPort + probes < ProbeLimit(StartPort))
    /\ apc' = "probeThrew"
    /\ UNCHANGED <<auditEnvVars, resultsDir, probes, selectedPort, serverProcess,
                   pageIndex, profileDir, results, auditExit, auditObsVars>>
    /\ UNCHANGED <<watchVars, histVars, buildVars, fnVars>>

\* no function is followed on its own
NoCall == [fn |-> "none"]

\* the call has not ended
Pending == [done |-> FALSE]

\* the call variables while the model follows a whole process
FnOff == call = NoCall /\ ret = Pending

(***************************************************************************)
(* preprocessHtmlContent and its toRows, called on their own.  Text is a   *)
(* sequence of characters.  The characters of the model's CSV texts are a  *)
(* letter, a digit, the comma, the space and the two line ends; Number()   *)
(* is modelled on the texts these make: a run of decimal digits is a       *)
(* finite number, any other non-empty text is NaN.                         *)
(***************************************************************************)
\* the characters String.prototype.trim removes (lines hold no line end)
Whitespace == {" ", "\t"}

\* raw.trim()
RECURSIVE trim(_)
trim(s) ==
    IF s = <<>> THEN s
    ELSE IF Head(s) \in Whitespace THEN trim(Tail(s))
    ELSE IF s[Len(s)] \in Whitespace THEN trim(SubSeq(s, 1, Len(s) - 1))
    ELSE s

Digits == <<"0", "1", "2", "3", "4", "5", "6", "7", "8", "9">>

\* Number(raw) is a finite number (for text of letters, digits and spaces)
IsDecimal(raw) ==
    /\ raw # <<>>
    /\ \A i \in 1..Len(raw) : \E d \in 1..Len(Digits) : Digits[d] = raw[i]

\* Number(raw) for a run of decimal digits
RECURSIVE DecimalValue(_)
DecimalValue(raw) ==
    IF raw = <<>> THEN 0
    ELSE LET last == raw[Len(raw)]
             d == CHOOSE k \in 1..Len(Digits) : Digits[k] = last
         IN  DecimalValue(SubSeq(raw, 1, Len(raw) - 1)) * 10 + (d - 1)

\* a cell kept as the text it is
CellValueRaw(raw) == [str |-> raw]

\* asNum = raw === "" ? raw : Number(raw); Number.isFinite(asNum) ? asNum : raw
CellValue(raw) ==
    IF raw = <<>> THEN [str |-> raw]
    ELSE IF IsDecimal(raw) THEN [num |-> DecimalValue(raw)]
    ELSE [str |-> raw]

\* csvText.replace(/\r/g, "\n")
ReplaceCR(text) == [i \in 1..Len(text) |-> IF text[i] = "\r" THEN "\n" ELSE text[i]]

\* csvText.replace(/\r/g, "\n").split(/\n+/).filter(Boolean)
csvLines(csvText) ==
    IF csvText = <<>> THEN <<>>
    ELSE SelectSeq(Split(ReplaceCR(csvText), "\n"), LAMBDA l : l # <<>>)

\* lines[0].split(",").map((h) => h.trim())
csvHeaders(line) ==
    LET hs == Split(line, ",") IN [j \in 1..Len(hs) |-> trim(hs[j])]

\* if (!cols[0]) continue
SkipsRow(cols) == cols[1] = <<>>

\* the object the inner loop builds for one line: row[headers[j]] is
\* assigned for j = 0, 1, ..., so the last column of a repeated header wins
RowOf(headers, cols) ==
    [key \in {headers[j] : j \in 1..Len(headers)} |->
        LET j == CHOOSE k \in 1..Len(headers) :
                     /\ headers[k] = key
                     /\ \A m \in (k + 1)..Len(headers) : headers[m] # key
        IN  CellValue(trim(IF j <= Len(cols) THEN cols[j] ELSE <<>>))]

\* toRows(csvText)
toRows(csvText) ==
    LET lines == csvLines(csvText)
    IN  IF lines = <<>> THEN <<>>
        ELSE LET headers == csvHeaders(lines[1])
                 kept == SelectSeq(SubSeq(lines, 2, Len(lines)),
                                   LAMBDA l : ~SkipsRow(Split(l, ",")))
             IN  IF kept = <<>> THEN <<>>
                 ELSE [i \in 1..Len(kept) |-> RowOf(headers, Split(kept[i], ","))]

\* the characters of the model's CSV texts
CsvAlphabet == {"a", "4", ",", " ", "\n", "\r"}

\* the CSV file of the example: name,score / Alpha,42
ExampleCsv ==
    <<"n", "a", "m", "e", ",", "s", "c", "o", "r", "e", "\n",
      "A", "l", "p", "h", "a", ",", "4", "2">>

\* the CSV texts toRows is called on
CsvSpace ==
    UNION {[1..n -> CsvAlphabet] : n \in 0..MaxCsvLen} \cup {ExampleCsv}

\* toRows(csvText) has been called
ToRowsInit ==
    /\ call \in {[fn |-> "toRows", csvText |-> t] : t \in CsvSpace}
    /\ ret = Pending

\* toRows returns
CallToRows ==
    /\ call.fn = "toRows"
    /\ ret = Pending
    /\ ret' = [done |-> TRUE, value |-> toRows(call.csvText)]
    /\ UNCHANGED call
    /\ UNCHANGED <<watchVars, histVars, buildVars, auditVars>>

(***************************************************************************)
(* preprocessHtmlContent with the markup and the two auxiliary files as    *)
(* inputs.  The markup is a sequence of pieces, each a record; the text of *)
(* a file or of a data block is a sequence of characters.                  *)
(***************************************************************************)
HeadOpen == [tag |-> "<head>"]

HeadClose == [tag |-> "</head>"]

\* the characters of the head end, the text replace() matches
HeadCloseText == <<"<", "/", "h", "e", "a", "d", ">">>

BodyText == [tag |-> "<body>"]

LineEnd == [tag |-> "\n"]

\* <script type="application/json" id="...">body</script>
ScriptBlock(id, body) ==
    [tag |-> "script", type |-> "application/json", id |-> id, body |-> body]

\* the markup the hook is called with: no head end, one, two
HtmlSpace ==
    {<<>>, <<BodyText>>, <<HeadClose>>, <<HeadOpen, HeadClose, BodyText>>,
     <<HeadOpen, HeadClose, BodyText, HeadClose>>}

\* fs.readFileSync(path, "utf8") of a missing file, of a file that cannot
\* be read, and of a file with the text
ReadMissing == [error |-> "ENOENT"]

ReadDenied == [error |-> "EACCES"]

ReadText(text) == [error |-> "none", text |-> text]

DetailsSpace ==
    {ReadMissing, ReadDenied, ReadText(<<>>), ReadText(<<"{", "}">>),
     ReadText(<<"{", "$", "$", "}">>), ReadText(<<"$", "&">>)}

HookCsvSpace ==
    {ReadMissing, ReadDenied, ReadText(<<>>), ReadText(ExampleCsv),
     ReadText(<<"a", "\n", ",", "4">>), ReadText(<<"a">>)}

\* every file takes the branch of the named file
HookAppliesAlways(filePath) == TRUE

\* path.basename(filePath) === "engineering_responsibilities.html"
HookApplies(filePath) == basename(filePath) = Chars[EngineeringPage]

\* try { x = fs.readFileSync(...) } catch (_) {}: the text, or null
readOrNull(read) == IF read.error = "none" THEN read.text ELSE Absent

\* !value, for null and for text
Falsy(value) == value = Absent \/ value = <<>>

\* ${text} in a template literal: the characters of text as they are
Verbatim(text) == [text |-> text]

\* JSON.stringify(value): the JSON text of value, told apart from value
JSONstringify(value) == [json |-> value]

\* embeddedCsv ? JSON.stringify(toRows(embeddedCsv)) : "[]"
rowsJson(embeddedCsv) ==
    IF Falsy(embeddedCsv) THEN JSONstringify(<<>>)
    ELSE JSONstringify(toRows(embeddedCsv))

\* parts.join("\n")
injection(embeddedCompanyDetails, embeddedCsv) ==
    LET rows == ScriptBlock("company-rows-json", rowsJson(embeddedCsv))
    IN  IF Falsy(embeddedCompanyDetails) THEN <<rows>>
        ELSE <<ScriptBlock("company-details-json", Verbatim(embeddedCompanyDetails)),
               LineEnd, rows>>

\* what String.prototype.replace makes of a replacement text: $$ stands
\* for $ and $& for the matched text (no text of the model holds $` or $')
RECURSIVE ExpandDollar(_, _)
ExpandDollar(text, matched) ==
    IF Len(text) < 2 THEN text
    ELSE IF text[1] = "$" /\ text[2] = "$"
         THEN <<"$">> \o ExpandDollar(SubSeq(text, 3, Len(text)), matched)
    ELSE IF text[1] = "$" /\ text[2] = "&"
         THEN matched \o ExpandDollar(SubSeq(text, 3, Len(text)), matched)
    ELSE <<text[1]>> \o ExpandDollar(Tail(text), matched)

\* the injection as replace() writes it (the rows of the model hold no $)
Replacement(parts, matched) ==
    [i \in 1..Len(parts) |->
        IF parts[i].tag = "script" /\ parts[i].id = "company-details-json"
        THEN ScriptBlock(parts[i].id, Verbatim(ExpandDollar(parts[i].body.text, matched)))
        ELSE parts[i]]

\* htmlContent.includes("</head>")
IncludesHeadClose(htmlContent) ==
    \E i \in 1..Len(htmlContent) : htmlContent[i] = HeadClose

\* htmlContent.replace("</head>", `${injection}\n</head>`): the first one
ReplaceHeadClose(htmlContent, parts) ==
    LET i == CHOOSE k \in 1..Len(htmlContent) :
                 /\ htmlContent[k] = HeadClose
                 /\ \A m \in 1..(k - 1) : htmlContent[m] # HeadClose
    IN  SubSeq(htmlContent, 1, i - 1)
            \o Replacement(parts, HeadCloseText) \o <<LineEnd, HeadClose>>
            \o SubSeq(htmlContent, i + 1, Len(htmlContent))

\* preprocessHtmlContent(filePath, htmlContent), given what the two reads do
preprocessHtml(filePath, htmlContent, detailsRead, csvRead) ==
    IF ~HookApplies(filePath) THEN htmlContent
    ELSE LET embeddedCompanyDetails == readOrNull(detailsRead)
             embeddedCsv == readOrNull(csvRead)
             parts == injection(embeddedCompanyDetails, embeddedCsv)
         IN  IF Falsy(embeddedCompanyDetails) /\ Falsy(embeddedCsv)
             THEN htmlContent
             ELSE IF IncludesHeadClose(htmlContent)
             THEN ReplaceHeadClose(htmlContent, parts)
             ELSE parts \o htmlContent

\* preprocessHtmlContent(filePath, htmlContent) has been called
PreprocessInit ==
    /\ call \in {[fn |-> "preprocessHtmlContent", filePath |-> f,
                  htmlContent |-> h, details |-> d, csv |-> c] :
                    f \in {IndexHtml, EngHtml}, h \in HtmlSpace,
                    d \in DetailsSpace, c \in HookCsvSpace}
    /\ ret = Pending

\* preprocessHtmlContent returns: nothing in it throws past its catch
CallPreprocess ==
    /\ call.fn = "preprocessHtmlContent"
    /\ ret = Pending
    /\ ret' = [done |-> TRUE, threw |-> FALSE,
               value |-> preprocessHtml(call.filePath, call.htmlContent,
                                        call.details, call.csv)]
    /\ UNCHANGED call
    /\ UNCHANGED <<watchVars, histVars, buildVars, auditVars>>

(***************************************************************************)
(* cleanOutput and robustCopy, called on their own: the k-th attempt of    *)
(* fs.remove or fs.copy ends as outcomes[k] says.                          *)
(***************************************************************************)
\* cleanOutput() or robustCopy(...) has been called
RetryInit ==
    /\ call \in {[fn |-> f, outcomes |-> o] :
                    f \in {"cleanOutput", "robustCopy"},
                    o \in [1..CleanRetries -> Outcomes]}
    /\ ret = Pending

\* cleanOutput returns or throws
CallCleanOutput ==
    /\ call.fn = "cleanOutput"
    /\ ret = Pending
    /\ ret' = [done |-> TRUE, value |-> cleanOutput(call.outcomes, CleanRetries, 0)]
    /\ UNCHANGED call
    /\ UNCHANGED <<watchVars, histVars, buildVars, auditVars>>

\* robustCopy returns or throws
CallRobustCopy ==
    /\ call.fn = "robustCopy"
    /\ ret = Pending
    /\ ret' = [done |-> TRUE, value |-> robustCopy(call.outcomes, CopyRetries, 0)]
    /\ UNCHANGED call
    /\ UNCHANGED <<watchVars, histVars, buildVars, auditVars>>

vars == <<watchVars, histVars, buildVars, auditVars, fnVars>>

\* the watch variables while the model follows one build pipeline only
WatchOff ==
    /\ isWatchMode = FALSE
    /\ alive = TRUE
    /\ exitCode = 0
    /\ initialBuild = TRUE
    /\ watchers = <<>>
    /\ events = 0
    /\ rebuilds = 0
    /\ sinceEvent = DebounceDelay
    /\ spread = TRUE
    /\ burstClean = FALSE
    /\ burstBuilds = 0
    /\ uncovered = FALSE
    /\ overlapped = FALSE
    /\ failedRebuild = FALSE

(***************************************************************************)
(* Spec: the watch loop, with build() as one start and one completion.     *)
(***************************************************************************)
Init == WatchInit /\ BuildOff /\ AuditOff /\ FnOff

Next ==
    \/ \E ok \in BOOLEAN : InitialBuildComplete(ok)
    \/ \E p \in Paths : FileEvent(p)
    \/ Tick
    \/ \E w \in WatcherIds : RequeueFire(w)
    \/ \E w \in WatcherIds : BuildTimerFire(w)
    \/ \E w \in WatcherIds, ok \in BOOLEAN : BuildComplete(w, ok)

Spec == Init /\ [][Next]_vars

\* timers fire, time passes and builds end
FairSpec ==
    /\ Spec
    /\ WF_vars(Tick)
    /\ WF_vars(\E w \in WatcherIds : RequeueFire(w))
    /\ WF_vars(\E w \in WatcherIds : BuildTimerFire(w))
    /\ WF_vars(\E w \in WatcherIds, ok \in BOOLEAN : BuildComplete(w, ok))

(***************************************************************************)
(* BuildSpec: the steps of build() on a source tree, run after run.         *)
(***************************************************************************)
InitBuild == BuildInit /\ WatchOff /\ AuditOff /\ FnOff

NextBuild ==
    \/ CleanOutputStep
    \/ EnsureDirStep
    \/ processHtmlFiles
    \/ processCssFiles
    \/ processJsFiles
    \/ StepReturns
    \/ bundleChartModule
    \/ copyImages
    \/ copyStaticFiles
    \/ showBuildStatistics
    \/ \E f \in Universe : EditSource(f)
    \/ \E stale \in BOOLEAN : Rerun(stale)

BuildSpec == InitBuild /\ [][NextBuild]_vars

(***************************************************************************)
(* AuditSpec: one run of scripts/test-lighthouse.js.                        *)
(***************************************************************************)
InitAudit == AuditInit /\ WatchOff /\ BuildOff /\ FnOff

NextAudit ==
    \/ CheckDist
    \/ \E ok \in BOOLEAN : EnsureResultsDir(ok)
    \/ \E ok \in BOOLEAN : ResolveScripts(ok)
    \/ AcquirePort
    \/ \E state \in {"serving", "unresponsive", "stopped"} : SpawnServer(state)
    \/ LivenessCheck
    \/ \E profileOk \in BOOLEAN, toolRun \in RunSpace, report \in ReportSpace :
           AuditPage(profileOk, toolRun, report)
    \/ \E failures \in 0..RemoveAttempts : RemoveProfile(failures)
    \/ LoopEnds
    \/ SetupCatch
    \/ \E taskkillOk \in BOOLEAN, killOk \in BOOLEAN : Finally(taskkillOk, killOk)
    \/ Evaluate

AuditSpec == InitAudit /\ [][NextAudit]_vars

(***************************************************************************)
(* PortSpec: one call of findAvailablePort(3000).                           *)
(***************************************************************************)
InitPort == PortInit /\ WatchOff /\ BuildOff /\ FnOff

NextPort ==
    \/ ProbePort
    \/ ProbeExhausted

PortSpec == InitPort /\ [][NextPort]_vars

(***************************************************************************)
(* RetrySpec: one call of cleanOutput or of robustCopy.                    *)
(***************************************************************************)
InitRetry == RetryInit /\ WatchOff /\ BuildOff /\ AuditOff

NextRetry ==
    \/ CallCleanOutput
    \/ CallRobustCopy

RetrySpec == InitRetry /\ [][NextRetry]_vars

(***************************************************************************)
(* HookSpec: one call of preprocessHtmlContent, or of its toRows.           *)
(***************************************************************************)
InitHook == (ToRowsInit \/ PreprocessInit) /\ WatchOff /\ BuildOff /\ AuditOff

NextHook ==
    \/ CallToRows
    \/ CallPreprocess

HookSpec == InitHook /\ [][NextHook]_vars

(***************************************************************************)
(* The properties of the specification, stated against the model.          *)
(***************************************************************************)

\* C1: in watch mode at most one execution of build() is in progress in
\* every reachable state, also after rebuilds have completed.
C1_AtMostOneBuild == Cardinality(Building) <= 1

\* C2: a burst of events that arrive with no build in flight, each less than
\* the debounce delay after the one before, gets exactly one build: never
\* more than one, and one once every timer has fired.
C2_OneBuildPerBurst ==
    burstClean =>
        /\ burstBuilds <= 1
        /\ (\A w \in WatcherIds : ~TimerPending(w)) => burstBuilds = 1

\* C3: when every event arrives only after the build of the event before it
\* has completed, the builds started number the events once the loop is idle.
C3_OneBuildPerSpreadEvent == (spread /\ Idle) => rebuilds = events

\* C4: an event that arrives during a build starts no second build while
\* that build is in flight, and a build started after the event follows.
C4_EventDuringBuildCoalesced == [](~overlapped) /\ (uncovered ~> ~uncovered)

\* C5: after a rebuild has failed the process is still running.
C5_FailedRebuildKeepsWatching == failedRebuild => alive

\* C6: a script whose minification throws does not fail the build: unless a
\* copy fails for good, the run does not exit with 1, it ends with exit code
\* 0, and the output holds the source content at the file's path.
C6_MinifyFailureFallsBack ==
    (minifyThrew # {} /\ ~ioFailed) =>
        /\ status # "exit1"
        /\ pc = "done" => status = "exit0"
        /\ \A f \in minifyThrew : FileAt(out, f) = SrcContent(f)

\* C6 witness: a run ended with exit code 0 after a minification threw.
C6_Witness ==
    /\ pc = "done" /\ status = "exit0"
    /\ AppJs \in minifyThrew
    /\ FileAt(out, AppJs) = SrcContent(AppJs)

\* C7: when purging throws or returns nothing usable for a style file, the
\* build does not fail and writes the minified original content.
C7_PurgeFailureFallsBack ==
    \A f \in purgeUnusable :
        /\ ~ioFailed => status # "exit1"
        /\ FileAt(out, f) = CleanCss(SrcContent(f))

C9_ExcludedNeverTouched == \A f \in reads \cup written : ~shouldExclude(f)

\* C10: a run on the source tree of the successful run before it ends with
\* the same output tree, whatever the output directory held in between.
C10_RebuildIdempotent == (pc = "done" /\ prevValid) => out = prevOut

\* C10 witness: a second successful run, started on an output directory
\* that held a file of its own.
C10_Witness ==
    /\ pc = "done" /\ prevValid /\ run = 2
    /\ out = prevOut
    /\ \E f \in Universe : FileAt(out, f) # Absent

(***************************************************************************)
(* The audit harness.                                                      *)
(***************************************************************************)
\* runLighthouseTests has left its try/catch/finally statement or ended
AfterFinally == apc \in {"evaluate", "returned", "exited"}

\* the process has ended, or runLighthouseTests has returned
AuditEnded == apc \in {"returned", "exited", "rejected"}

\* the entries of pageLog
Entries == {pageLog[i] : i \in 1..Len(pageLog)}

\* the <<page, category>> pairs whose score, as the tool reported it, is below
\* the minScore the audit configuration sets for the category
Violations ==
    {<<e.name, Categories[c]>> :
        <<e, c>> \in {x \in Entries \X (1..Len(Categories)) :
                        /\ x[1].outcome = "pushed"
                        /\ x[1].report[Categories[x[2]]] < minScore[Categories[x[2]]]}}

\* C11: on every path on which the server process was spawned, its termination
\* has been requested before the results are evaluated and before the process
\* returns or exits.
C11_TerminationBeforeEvaluation ==
    (serverProcess /\ (AfterFinally \/ evaluated \/ auditExit # -1)) => signals # <<>>

\* a page's audit threw, the server was spawned, and the run has ended
C11_Witness ==
    /\ serverProcess
    /\ apc = "exited"
    /\ signals # <<>>
    /\ \E e \in Entries : e.outcome = "threw"

\* C12: after the harness returns the spawned server process is no longer
\* running, on every path.
C12_ServerStoppedAfterReturn ==
    (serverProcess /\ AuditEnded) => server = "stopped"

\* C13: with at least one result, the exit status is 1 exactly when some
\* gathered page has a category score below its threshold of 0.9, every such
\* page and category is listed, and the status is 0 otherwise.
C13_ExitOneIffBelowThreshold ==
    (AuditEnded /\ Len(results) > 0) =>
        /\ auditExit = 1 <=> Violations # {}
        /\ auditExit = 0 <=> Violations = {}
        /\ listed = Violations

\* a page with performance 0.85 is listed and the status is 1
C13_Witness ==
    /\ apc = "exited"
    /\ auditExit = 1
    /\ \E e \in Entries :
           /\ e.outcome = "pushed"
           /\ e.report.performance = 85
           /\ e.report.accessibility >= 90
           /\ <<e.name, "performance">> \in listed
           /\ <<e.name, "accessibility">> \notin listed

\* C14: the status is 1 after the evaluation only when a category whose
\* assertion level is "error" is below its minScore on some gathered page.
C14_AdvisoryNeverFails ==
    (evaluated /\ auditExit = 1) =>
        \E v \in Violations : assertions[v[2]] = "error"

C16_MissingDistFailsFast ==
    (~distExists /\ apc # "start") =>
        /\ apc = "exited"
        /\ auditExit = 1
        /\ probes = 0
        /\ ~serverProcess
        /\ server = "none"
        /\ ~resultsDir
        /\ pageLog = <<>>
        /\ results = <<>>

\* the directory is missing and the process has exited with status 1
C16_Witness == ~distExists /\ apc = "exited" /\ auditExit = 1 /\ probes = 0

\* C17: when no port of the probed range can be bound, the run ends with a
\* non-zero exit status.
C17_NoPortIsFatal ==
    (AuditEnded /\ probes = PortRange /\ selectedPort = 0) => auditExit > 0

\* C18: a page for which the tool left a report is handled by its report,
\* whatever the exit status or the spawn error: its scores are gathered, or
\* its runtime error skips it, and the status alone never fails it.
C18_ReportIsAuthoritative ==
    \A e \in Entries :
        /\ e.report.kind = "scores" =>
              /\ e.outcome = "pushed"
              /\ \E i \in 1..Len(results) : results[i] = ResultOf(e.name, e.report)
        /\ e.report.kind = "runtimeError" => e.outcome = "skipped"

\* the tool exited with a non-zero status and its report was gathered
C18_Witness ==
    \E e \in Entries :
        /\ e.run = "status1"
        /\ e.report.kind = "scores"
        /\ e.outcome = "pushed"
        /\ \E i \in 1..Len(results) : results[i].name = e.name

\* C19: once the page loop has begun, every page of testUrls is visited once
\* and in order, the tool runs once for each page whose profile directory
\* could be made, and a page that threw takes away no other page's result.
C19_EveryPageAudited ==
    /\ \A i \in 1..Len(pageLog) : i <= Len(testUrls) /\ pageLog[i].name = testUrls[i]
    /\ (Len(pageLog) > 0 /\ (AfterFinally \/ apc \in {"catch", "finally"})) =>
           /\ Len(pageLog) = Len(testUrls)
           /\ ~manualShown
           /\ \A e \in Entries :
                  e.outcome = "pushed" => \E i \in 1..Len(results) : results[i].name = e.name

\* the first page threw for want of a report and the pages after it were audited
C19_Witness ==
    /\ AuditEnded
    /\ Len(pageLog) = Len(testUrls)
    /\ pageLog[1].outcome = "threw"
    /\ pageLog[1].report.kind = "none"
    /\ pageLog[1].run = "status1"
    /\ pageLog[2].outcome = "pushed"
    /\ pageLog[3].tool

\* C20: results holds only pages whose report had no runtime error, each page
\* at most once, and no page with a runtime error is in it.
C20_RuntimeErrorNeverAggregated ==
    /\ \A i \in 1..Len(results) :
           \E e \in Entries :
               /\ e.name = results[i].name
               /\ e.report.kind = "scores"
               /\ results[i] = ResultOf(e.name, e.report)
    /\ \A i, j \in 1..Len(results) : results[i].name = results[j].name => i = j
    /\ \A e \in Entries :
           e.report.kind = "runtimeError" =>
               \A i \in 1..Len(results) : results[i].name # e.name

\* a page had a runtime error and another page gave a result
C20_Witness ==
    /\ AuditEnded
    /\ \E e \in Entries : e.report.kind = "runtimeError" /\ e.tool
    /\ Len(results) > 0
    /\ \A i \in 1..Len(results) : results[i].performance > 0

(***************************************************************************)
(* findAvailablePort.                                                      *)
(***************************************************************************)
\* the ports startPort .. startPort + 99
ProbedRange == StartPort..(StartPort + PortRange - 1)

\* C21: findAvailablePort tries the ports of the range in increasing order
\* and returns the lowest one that binds; it throws exactly when all 100 are
\* occupied, and never returns a port outside the range.
C21_LowestFreePort ==
    /\ \A q \in StartPort..(StartPort + probes - 1) :
           q \in ProbedRange /\ (q # selectedPort => IsOccupied(occupied, q))
    /\ apc = "probeReturned" =>
           /\ selectedPort \in ProbedRange
           /\ ~IsOccupied(occupied, selectedPort)
           /\ \A q \in ProbedRange : q < selectedPort => IsOccupied(occupied, q)
           /\ probes = selectedPort - StartPort + 1
    /\ apc = "probeThrew" =>
           /\ \A q \in ProbedRange : IsOccupied(occupied, q)
           /\ probes = PortRange
    /\ (\A q \in ProbedRange : IsOccupied(occupied, q)) => apc # "probeReturned"
    /\ apc \in {"probeReturned", "probeThrew"} =>
           findAvailablePort(occupied, StartPort) =
               [port |-> selectedPort, probes |-> probes]

\* 3000-3004 are occupied and 3005 is returned
C21_Witness ==
    /\ apc = "probeReturned"
    /\ occupied = [from |-> StartPort, to |-> StartPort + 4]
    /\ selectedPort = StartPort + 5

(***************************************************************************)
(* The preprocessing hook.                                                 *)
(***************************************************************************)
\* toRows has returned for the call
RowsReturned == call.fn = "toRows" /\ ret.done

\* the lines of the CSV text after its header line
DataLines == LET lines == csvLines(call.csvText) IN SubSeq(lines, 2, Len(lines))

\* the data lines whose first cell, as written, is not empty
KeptLines == SelectSeq(DataLines, LAMBDA l : Head(l) # ",")

\* the value the claim gives a cell: a number if it looks like one, else its text
ExpectedCell(cell) ==
    LET raw == trim(cell)
    IN  IF raw # <<>> /\ \A i \in 1..Len(raw) : raw[i] \in {Digits[d] : d \in 1..Len(Digits)}
        THEN [num |-> DecimalValue(raw)]
        ELSE [str |-> raw]

\* row is the object of the data line, keyed by the headers of the first line
RowMatches(row, line) ==
    LET headers == Split(csvLines(call.csvText)[1], ",")
        cols == Split(line, ",")
    IN  /\ DOMAIN row = {trim(headers[j]) : j \in 1..Len(headers)}
        /\ \A j \in 1..Len(headers) :
               (\A m \in (j + 1)..Len(headers) : trim(headers[m]) # trim(headers[j])) =>
                   row[trim(headers[j])] =
                       ExpectedCell(IF j <= Len(cols) THEN cols[j] ELSE <<>>)

\* C22 as stated: toRows yields one object per data row, keyed by the
\* headers of the first line, numeric-looking cells as numbers and blank
\* cells as empty strings.
C22_OneObjectPerDataRow ==
    RowsReturned =>
        /\ Len(ret.value) = Len(DataLines)
        /\ \A i \in 1..Len(ret.value) : RowMatches(ret.value[i], DataLines[i])

\* C22 as amended: toRows yields one object, in order, per data row whose
\* first cell is not empty; the rows with an empty first cell are left out.
C22_OneObjectPerKeptRow ==
    RowsReturned =>
        /\ Len(ret.value) = Len(KeptLines)
        /\ \A i \in 1..Len(ret.value) : RowMatches(ret.value[i], KeptLines[i])

\* header name,score and data row Alpha,42 give [{"name":"Alpha","score":42}]
C22_Witness ==
    /\ RowsReturned
    /\ call.csvText = ExampleCsv
    /\ Len(ret.value) = 1
    /\ ret.value[1][<<"n", "a", "m", "e">>] = [str |-> <<"A", "l", "p", "h", "a">>]
    /\ ret.value[1][<<"s", "c", "o", "r", "e">>] = [num |-> 42]
    /\ DOMAIN ret.value[1] = {<<"n", "a", "m", "e">>, <<"s", "c", "o", "r", "e">>}

\* preprocessHtmlContent has returned for the call
HookReturned == call.fn = "preprocessHtmlContent" /\ ret.done

\* a read that failed, as the read of a file that is not there
AsAbsent(read) == IF read.error = "none" THEN read ELSE ReadMissing

\* C29: the hook never throws; for a file other than the named one, and for
\* the named one when neither auxiliary file can be read, it returns the
\* markup it was given; and a read that fails counts as a file not there.
C29_HookLeavesMarkupAlone ==
    HookReturned =>
        /\ ~ret.threw
        /\ basename(call.filePath) # Chars[EngineeringPage] =>
               ret.value = call.htmlContent
        /\ call.details.error # "none" /\ call.csv.error # "none" =>
               ret.value = call.htmlContent
        /\ ret.value = preprocessHtml(call.filePath, call.htmlContent,
                                      AsAbsent(call.details), AsAbsent(call.csv))
        /\ call.details.error = "EACCES" /\ call.csv.error = "none"
           /\ call.csv.text # <<>> /\ basename(call.filePath) = Chars[EngineeringPage] =>
               /\ ret.value # call.htmlContent
               /\ \A i \in 1..Len(ret.value) :
                      ret.value[i].tag = "script" => ret.value[i].id = "company-rows-json"

C29_Witness ==
    /\ HookReturned
    /\ call.filePath = EngHtml
    /\ call.details = ReadDenied
    /\ call.csv = ReadMissing
    /\ call.htmlContent = <<HeadOpen, HeadClose, BodyText>>
    /\ ret.value = call.htmlContent

\* the pieces the hook put in: those before the first head end of the
\* result, or those in front of the markup when it has no head end
Inserted ==
    IF IncludesHeadClose(call.htmlContent)
    THEN {i \in 1..Len(ret.value) : \A m \in 1..i : ret.value[m] # HeadClose}
    ELSE 1..(Len(ret.value) - Len(call.htmlContent))

\* C30 as stated: with the CSV file present, the markup the hook returns
\* for the named file holds the CSV text and the rows made of it, each in
\* a data block just before the head end, or in front without a head end.
C30_EmbedsCsvTextAndRows ==
    /\ HookReturned
    /\ basename(call.filePath) = Chars[EngineeringPage]
    /\ call.csv.error = "none"
    /\ call.csv.text # <<>>
    => /\ \E i \in Inserted :
              /\ ret.value[i].tag = "script"
              /\ ret.value[i].type = "application/json"
              /\ ret.value[i].body = JSONstringify(toRows(call.csv.text))
       /\ \E i \in Inserted :
              /\ ret.value[i].tag = "script"
              /\ ret.value[i].type = "application/json"
              /\ ret.value[i].body = Verbatim(call.csv.text)

(***************************************************************************)
(* The watch loop: timers and the build in flight.                         *)
(***************************************************************************)
\* the debounce timers that are armed and have not fired
OutstandingTimers == {w \in WatcherIds : TimerPending(w)}

\* C23 as stated: in watch mode at most one debounce timer is outstanding
\* at any instant.
C23_AtMostOneTimer == Cardinality(OutstandingTimers) <= 1

\* the build timer of watcher w fires and its callback starts build()
BuildStarts(w) == ~watchers[w].buildPromise /\ watchers'[w].buildPromise

\* the build() that the callback of watcher w awaits ends in this step:
\* its promise settles, or the process leaves while it is in flight
BuildEnds(w) ==
    /\ watchers[w].buildPromise
    /\ ~watchers'[w].buildPromise \/ (alive /\ ~alive')

\* no event reached watcher w while its build ran
NoEventDuringBuild(w) ==
    watchers[w].pendingChanges = {} /\ ~TimerPending(w)

\* C24 as stated: a build the timer starts begins with the pending set
\* cleared; when it ends, with or without an error, the in-flight flag is
\* cleared, and without an event during the build the watch state is Idle.
C24_BuildEndClearsFlag ==
    [][\A w \in WatcherIds :
          /\ BuildStarts(w) => watchers'[w].pendingChanges = {}
          /\ BuildEnds(w) =>
                /\ ~watchers'[w].buildPromise
                /\ NoEventDuringBuild(w) => Idle']_vars

(***************************************************************************)
(* The build: order of the steps, retries of removal and copy.             *)
(***************************************************************************)
\* remove, recreate, markup, styles, scripts, chart bundle, images,
\* verbatim files, statistics
FixedOrder ==
    <<"clean", "ensureDir", "html", "css", "js", "chart", "images", "static", "stats">>

\* C25: the steps a build() has begun are a prefix of the fixed order, the
\* step it is in is the last one begun, a build that returns has begun all
\* of them, and a step that writes an output file runs only after the
\* removal and the re-creation of the output directory have finished.
C25_FixedStepOrder ==
    /\ [](pc # "off" =>
            /\ Len(trace) \in 1..Len(FixedOrder)
            /\ \A i \in 1..Len(trace) : trace[i] = FixedOrder[i]
            /\ status = "running" => pc = trace[Len(trace)]
            /\ pc = "done" => trace = FixedOrder
            /\ written # {} => Len(trace) > 2)
    /\ [][\A f \in DOMAIN out' :
             (status = "running" /\ status' = "running" /\ run' = run
              /\ (f \notin DOMAIN out \/ out'[f] # out[f]))
             => Len(trace) > 2]_vars

C25_Witness ==
    /\ pc = "done"
    /\ trace = FixedOrder
    /\ {IndexHtml, StyleCss, AppJs, LogoPng, Cname} \subseteq written
    /\ ChartMinJs \in DOMAIN out

\* the errors the claims call transient: resource busy, permission denied
Transient == {"EBUSY", "EPERM"}

\* what a loop of at most limit attempts that retries the transient errors
\* and no other makes of the outcomes: the attempt it stops at
StopsAt(outcomes, limit) ==
    CHOOSE k \in 1..limit :
        /\ outcomes[k] \notin Transient \/ k = limit
        /\ \A j \in 1..(k - 1) : outcomes[j] \in Transient

CleanReturned == call.fn = "cleanOutput" /\ ret.done

CopyReturned == call.fn = "robustCopy" /\ ret.done

\* C26 as stated: the removal of the output directory is retried on a busy
\* or permission-denied error, 3 attempts at most; it succeeds when an
\* attempt succeeds, throws when all fail, and throws any other error on
\* its first occurrence.
C26_RemovalRetriesBusyAndDenied ==
    CleanReturned =>
        LET k == StopsAt(call.outcomes, CleanRetries)
        IN  /\ ret.value.attempts = k
            /\ ret.value.threw = (call.outcomes[k] # "ok")
            /\ ret.value.removed = (call.outcomes[k] = "ok")

\* C27: a copy is retried on a busy or permission-denied error, 3 attempts
\* at most; it succeeds when an attempt succeeds, throws after the third
\* failure, and throws any other error at once.
C27_CopyRetriesBusyAndDenied ==
    CopyReturned =>
        LET k == StopsAt(call.outcomes, CopyRetries)
        IN  /\ ret.value.attempts = k
            /\ ret.value.attempts <= 3
            /\ ret.value.threw = (call.outcomes[k] # "ok")
            /\ ret.value.copied = (call.outcomes[k] = "ok")

C27_Witness ==
    /\ CopyReturned
    /\ call.outcomes = <<"EBUSY", "EPERM", "ok">>
    /\ ret.value = [threw |-> FALSE, copied |-> TRUE, attempts |-> 3]

(***************************************************************************)
(* The audit harness: the profile directory of a page.                     *)
(***************************************************************************)
\* the iteration of the page loop that made pageLog[i] is over
IterationOver(i) == i < Len(pageLog) \/ apc # "cleanup"

\* C28 as stated: every page whose audit was started (its profile
\* directory made, the tool run) has had tryRemove called for its profile
\* directory when its iteration is over, whatever the report or the error.
C28_ProfileRemovalAttempted ==
    \A i \in 1..Len(pageLog) :
        pageLog[i].tool /\ IterationOver(i) => pageLog[i].cleanup

(***************************************************************************)
(* Watch state, output directory and silent pages.                         *)
(***************************************************************************)
\* C31 as stated: a watch-mode process has one watch state, made when the
\* initial build has succeeded, and a completed rebuild makes no other.
C31_OneWatchState ==
    /\ Len(watchers) <= 1
    /\ (isWatchMode /\ alive /\ ~initialBuild) => Len(watchers) = 1

Silent(e) == e.tool /\ e.run = "status0" /\ e.report.kind = "none"

\* the status the evaluation gives when only the pages that are not silent count
StatusOfOthers ==
    IF \E e \in Entries :
           /\ ~Silent(e)
           /\ e.outcome = "pushed"
           /\ IsIssue(ResultOf(e.name, e.report))
    THEN 1 ELSE 0

\* C33: a page whose tool run has status 0 and leaves no report throws
\* nothing and gives no result; its profile directory is cleaned up, the
\* loop goes on to the next page, and the exit status is that of the other
\* pages alone.
C33_SilentPageIgnored ==
    /\ \A i \in 1..Len(pageLog) :
           Silent(pageLog[i]) =>
               /\ pageLog[i].outcome = "nothing"
               /\ \A k \in 1..Len(results) : results[k].name # pageLog[i].name
               /\ IterationOver(i) => pageLog[i].cleanup
               /\ (IterationOver(i) /\ i = Len(pageLog)) =>
                      \/ pageIndex = i + 1 /\ apc = "page"
                      \/ Len(pageLog) = Len(testUrls) /\ ~manualShown
    /\ evaluated => auditExit = StatusOfOthers

\* the first page is silent, another page is below the target: status 1
C33_Witness ==
    /\ evaluated
    /\ Len(pageLog) = Len(testUrls)
    /\ Silent(pageLog[1]) /\ pageLog[1].cleanup
    /\ pageLog[2].outcome = "pushed"
    /\ auditExit = 1
    /\ Len(results) < Len(testUrls)

====
